---- MODULE Spec2Model ----
(***************************************************************************)
(* Model of css_loader.js: the dynamic stylesheet loader (loadCSS,         *)
(* autoLoadPageCSS, loadGenericCSS, init and the automatic init() run on   *)
(* script evaluation), together with the part of the hosting document it   *)
(* reads and writes: readyState, the DOMContentLoaded event, the link      *)
(* elements appended to the head and their load / error events.            *)
(*                                                                         *)
(* Strings are sequences of one-character strings, so that split, pop,     *)
(* replace and the template literals are computed character by character.  *)
(***************************************************************************)
EXTENDS Integers, Sequences, FiniteSets, TLC

\* ------------------------------------------------------------------ bounds

\* Calls of the public API (CSSLoader.load / autoLoad / loadGeneric / init)
\* made by other scripts after the automatic init() run.
MaxCalls == 1

\* Pieces concatenated after the leading "/" of location.pathname.
MaxPieces == 2

\* Length of the candidate lists of the generalised loadGenericCSS (GenSpec).
MaxCandidates == 2

\* ----------------------------------------------------------------- strings

DotHtml == <<".", "h", "t", "m", "l">>

DotCss == <<".", "c", "s", "s">>

DotSlash == <<".", "/">>

StyleCss == <<"s", "t", "y", "l", "e">> \o DotCss

OtherCss == <<"b">> \o DotCss

GenericPrefix == <<"g", "e", "n", "e", "r", "i", "c", "-", "c", "s", "s", "-">>

PagePrefix == <<"p", "a", "g", "e", "-", "c", "s", "s", "-">>

ErrorPrefix ==
    <<"F", "a", "i", "l", "e", "d", " ", "t", "o", " ", "l", "o", "a", "d", " ", "C", "S", "S", ":", " ">>

DigitChar(d) == <<"0", "1", "2", "3", "4", "5", "6", "7", "8", "9">>[d + 1]

\* Number -> decimal string, as the template literal `${i}` formats it.
RECURSIVE ToDecimal(_)
ToDecimal(n) ==
    IF n < 10 THEN <<DigitChar(n)>>
    ELSE ToDecimal(n \div 10) \o <<DigitChar(n % 10)>>

\* Position of the last "/" of s, 0 when there is none.
RECURSIVE LastSlash(_, _)
LastSlash(s, k) ==
    IF k = 0 THEN 0
    ELSE IF s[k] = "/" THEN k
    ELSE LastSlash(s, k - 1)

\* path.split('/').pop(): what follows the last "/" (all of s without one).
LastSegment(s) == SubSeq(s, LastSlash(s, Len(s)) + 1, Len(s))

\* Whether pat occurs in s at position k.
OccursAt(s, pat, k) ==
    /\ k + Len(pat) - 1 <= Len(s)
    /\ \A j \in 1..Len(pat) : s[k + j - 1] = pat[j]

\* s.indexOf(pat), 1-based; 0 when pat does not occur.
RECURSIVE IndexFrom(_, _, _)
IndexFrom(s, pat, k) ==
    IF k + Len(pat) - 1 > Len(s) THEN 0
    ELSE IF OccursAt(s, pat, k) THEN k
    ELSE IndexFrom(s, pat, k + 1)

\* The other reading of the replace: pat is stripped only where it ends s.
ReplaceSuffix(s, pat, rep) ==
    IF Len(s) >= Len(pat) /\ OccursAt(s, pat, Len(s) - Len(pat) + 1)
    THEN SubSeq(s, 1, Len(s) - Len(pat)) \o rep
    ELSE s

\* String.prototype.replace with a string pattern: the first occurrence only.
ReplaceFirst(s, pat, rep) ==
    LET k == IndexFrom(s, pat, 1)
    IN  IF k = 0 THEN s
        ELSE SubSeq(s, 1, k - 1) \o rep \o SubSeq(s, k + Len(pat), Len(s))

\* const pageName = path.split('/').pop().replace('.html', '');
PageName(path) == ReplaceFirst(LastSegment(path), DotHtml, <<>>)

\* const cssPath = `./${pageName}.css`;
PageCssPath(name) == DotSlash \o name \o DotCss

\* `page-css-${pageName}`
PageCssId(name) == PagePrefix \o name

\* `./${cssFile}`
GenericCssPath(file) == DotSlash \o file

\* `generic-css-${i}`
GenericCssId(i) == GenericPrefix \o ToDecimal(i)

\* new Error(`Failed to load CSS: ${cssPath}`)
LoadError(cssPath) == ErrorPrefix \o cssPath

\* ------------------------------------------------------------------- state

VARIABLES
    pathname,        \* window.location.pathname
    commonCSSFiles,  \* the candidate list of loadGenericCSS
    readyState,      \* document.readyState
    dclFired,        \* whether DOMContentLoaded has been dispatched
    links,           \* the link elements created by loadCSS, in creation order
    tasks            \* the calls of the public API, in call order

vars == <<pathname, commonCSSFiles, readyState, dclFired, links, tasks>>

\* The list in the source: const commonCSSFiles = ['style.css'];
SourceCSSFiles == <<StyleCss>>

\* A link element: its id ("" when none was given), its href, whether it is
\* in the document, what the platform has reported for it so far, and the
\* error its promise was rejected with ("" when it was not).
NewLink(cssPath, id) ==
    [id |-> id, href |-> cssPath, inDoc |-> TRUE, state |-> "pending", error |-> <<>>]

\* document.getElementById(id) finds an element.
HasElement(ls, id) == \E k \in 1..Len(ls) : ls[k].inDoc /\ ls[k].id = id

\* The state of the promise an executor run returned: wait = 0 when it called
\* resolve() itself, wait = k when it left the settling to link k's handlers.
PromiseState(ls, wait) ==
    IF wait = 0 THEN "resolved"
    ELSE IF wait \notin 1..Len(ls) THEN "pending"
    ELSE IF ls[wait].state = "loaded" THEN "resolved"
    ELSE IF ls[wait].state = "failed" THEN "rejected"
    ELSE "pending"

\* Mutant of LoadCSS: no check for an element that is already there.
LoadCSSNoCheck(ls, cssPath, id) ==
    [links |-> Append(ls, NewLink(cssPath, id)), wait |-> Len(ls) + 1]

\* Mutant of LoadCSS: the early return leaves out resolve().
LoadCSSNoResolve(ls, cssPath, id) ==
    IF id # <<>> /\ HasElement(ls, id)
    THEN [links |-> ls, wait |-> -1]
    ELSE [links |-> Append(ls, NewLink(cssPath, id)), wait |-> Len(ls) + 1]

\* loadCSS(cssPath, id): the promise executor, which runs during the call.
LoadCSS(ls, cssPath, id) ==
    IF id # <<>> /\ HasElement(ls, id)
    THEN [links |-> ls, wait |-> 0]
    ELSE [links |-> Append(ls, NewLink(cssPath, id)), wait |-> Len(ls) + 1]

\* link.onload: resolve().
OnLoad(ls, k) == [ls EXCEPT ![k].state = "loaded"]

\* Mutant of OnError: the handler also takes the failed element out.
OnErrorRemove(ls, k) ==
    [ls EXCEPT ![k].state = "failed", ![k].error = LoadError(ls[k].href), ![k].inDoc = FALSE]

\* link.onerror: reject(new Error(...)).
OnError(ls, k) == [ls EXCEPT ![k].state = "failed", ![k].error = LoadError(ls[k].href)]

\* A call of the public API. pc is where it stands:
\*   "deferred"    init: loadAllCSS is registered for DOMContentLoaded
\*   "generic"     in loadGenericCSS, awaiting loadCSS of candidate i
\*   "genericRet"  init: loadGenericCSS has returned, loadAllCSS awaits it
\*   "page"        in autoLoadPageCSS, awaiting loadCSS
\*   "pageRet"     init: autoLoadPageCSS has returned, loadAllCSS awaits it
\*   "load"        a direct loadCSS call: the promise is the caller's
\*   "done"        the async function has returned (its promise is resolved)
\*   "rejected"    the async function has thrown (its promise is rejected)
NewTask(kind) ==
    [kind |-> kind, pc |-> "new", i |-> 0, wait |-> 0, attempts |-> <<>>,
     atCall |-> readyState, starts |-> 0]

\* One loadCSS call as the caller made it: by which function, for which
\* path and id, whether the document had an element with that id when it was
\* made, and the promise it got (link = 0: resolved in the call).
Attempt(by, cssPath, id, existed, wait) ==
    [by |-> by, path |-> cssPath, id |-> id, existed |-> existed, link |-> wait]

\* Where an async helper's return leaves the call: loadAllCSS goes on (init),
\* or the promise handed to the caller resolves.
AfterReturn(task, helper) ==
    IF task.kind = "init"
    THEN IF helper = "generic" THEN "genericRet" ELSE "pageRet"
    ELSE "done"

\* loadGenericCSS from candidate i on, up to its next await or its return.
GenericFrom(ls, task, i) ==
    IF i < Len(commonCSSFiles)
    THEN LET cssPath == GenericCssPath(commonCSSFiles[i + 1])
             r == LoadCSS(ls, cssPath, GenericCssId(i))
         IN  [links |-> r.links,
              task |-> [task EXCEPT !.pc = "generic", !.i = i, !.wait = r.wait,
                            !.attempts = Append(@, Attempt("generic", cssPath, GenericCssId(i),
                                                HasElement(ls, GenericCssId(i)), r.wait))]]
    ELSE [links |-> ls, task |-> [task EXCEPT !.pc = AfterReturn(task, "generic")]]

\* autoLoadPageCSS up to its await or its return.
AutoLoadStart(ls, task) ==
    LET pageName == PageName(pathname)
    IN  IF pageName # <<>>
        THEN LET r == LoadCSS(ls, PageCssPath(pageName), PageCssId(pageName))
             IN  [links |-> r.links,
                  task |-> [task EXCEPT !.pc = "page", !.wait = r.wait,
                                !.attempts = Append(@, Attempt("page", PageCssPath(pageName), PageCssId(pageName),
                                                    HasElement(ls, PageCssId(pageName)), r.wait))]]
        ELSE [links |-> ls, task |-> [task EXCEPT !.pc = AfterReturn(task, "page")]]

\* loadAllCSS up to its first await.
LoadAllStart(ls, task) == GenericFrom(ls, [task EXCEPT !.starts = @ + 1], 0)

\* An exception leaving an async helper: loadAllCSS catches it and logs
\* (init), or the promise handed to the caller rejects. The helpers of the
\* source catch every rejection themselves; only their mutants get here.
Thrown(task) ==
    [task EXCEPT !.pc = IF task.kind = "init" THEN "done" ELSE "rejected"]

\* Mutant of ResumeGeneric: no try / catch around the await.
ResumeGenericNoCatch(ls, task) ==
    IF PromiseState(ls, task.wait) = "resolved"
    THEN [links |-> ls, task |-> [task EXCEPT !.pc = AfterReturn(task, "generic")]]
    ELSE [links |-> ls, task |-> Thrown(task)]

\* Mutant of ResumeGeneric: no break after a successful load.
ResumeGenericNoBreak(ls, task) == GenericFrom(ls, task, task.i + 1)

\* loadGenericCSS after its await: break on success, continue on failure.
ResumeGeneric(ls, task) ==
    IF PromiseState(ls, task.wait) = "resolved"
    THEN [links |-> ls, task |-> [task EXCEPT !.pc = AfterReturn(task, "generic")]]
    ELSE GenericFrom(ls, task, task.i + 1)

\* autoLoadPageCSS after its await: both outcomes are logged, then it returns.
ResumePage(ls, task) ==
    [links |-> ls, task |-> [task EXCEPT !.pc = AfterReturn(task, "page")]]

\* Whether the call has a continuation in the microtask queue.
Runnable(ls, task) ==
    \/ task.pc \in {"generic", "page"} /\ PromiseState(ls, task.wait) # "pending"
    \/ task.pc \in {"genericRet", "pageRet"}

\* The continuation of a call, up to its next await or its end.
Resume(ls, task) ==
    CASE task.pc = "generic" -> ResumeGeneric(ls, task)
      [] task.pc = "genericRet" -> AutoLoadStart(ls, task)
      [] task.pc = "page" -> ResumePage(ls, task)
      [] task.pc = "pageRet" -> [links |-> ls, task |-> [task EXCEPT !.pc = "done"]]

NoMicrotask(ls, ts) == \A t \in 1..Len(ts) : ~Runnable(ls, ts[t])

\* The microtask checkpoint after a callback: continuations run until none is left.
RECURSIVE RunMicrotasks(_, _)
RunMicrotasks(ls, ts) ==
    IF NoMicrotask(ls, ts) THEN [links |-> ls, tasks |-> ts]
    ELSE LET t == CHOOSE u \in 1..Len(ts) :
                      Runnable(ls, ts[u]) /\ \A v \in 1..(u - 1) : ~Runnable(ls, ts[v])
             r == Resume(ls, ts[t])
         IN  RunMicrotasks(r.links, [ts EXCEPT ![t] = r.task])

\* Dispatch of DOMContentLoaded to the listeners from the k-th call on, in the
\* order they were added, with a microtask checkpoint after each.
RECURSIVE Dispatch(_, _, _)
Dispatch(ls, ts, k) ==
    IF k > Len(ts) THEN [links |-> ls, tasks |-> ts]
    ELSE IF ts[k].pc # "deferred" THEN Dispatch(ls, ts, k + 1)
    ELSE LET r == LoadAllStart(ls, ts[k])
             q == RunMicrotasks(r.links, [ts EXCEPT ![k] = r.task])
         IN  Dispatch(q.links, q.tasks, k + 1)

\* Mutant of InitCall: no readyState check, loadAllCSS always runs at once.
InitCallNow(ls, rs) == LoadAllStart(ls, NewTask("init"))

\* init(): register loadAllCSS for DOMContentLoaded, or run it.
InitCall(ls, rs) ==
    IF rs = "loading"
    THEN [links |-> ls, task |-> [NewTask("init") EXCEPT !.pc = "deferred"]]
    ELSE LoadAllStart(ls, NewTask("init"))

\* ------------------------------------------------------------------ inputs

\* What a pathname is built from after its leading "/".
Pieces == {<<"a">>, DotHtml, <<"/">>}

RECURSIVE Concats(_)
Concats(n) ==
    IF n = 0 THEN {<<>>}
    ELSE LET shorter == Concats(n - 1)
         IN  shorter \cup {p \o q : p \in shorter, q \in Pieces}

Pathnames == {<<"/">> \o p : p \in Concats(MaxPieces)}

\* The pathname of the runs with other candidate lists.
GenPathnames == {<<"/", "a">> \o DotHtml}

\* The pathnames of the runs checked for termination: no page name, and one.
LivePathnames == {<<"/">>, <<"/", "a">> \o DotHtml}

CandidateNames == {StyleCss, OtherCss}

RECURSIVE ListsUpTo(_)
ListsUpTo(n) ==
    IF n = 0 THEN {<<>>}
    ELSE LET shorter == ListsUpTo(n - 1)
         IN  shorter \cup {Append(l, c) : l \in shorter, c \in CandidateNames}

CandidateLists == ListsUpTo(MaxCandidates)

\* Arguments of the direct CSSLoader.load calls: the first candidate of
\* loadGenericCSS under its id, and another stylesheet with and without an id.
XCssPath == DotSlash \o <<"x">> \o DotCss

LoadArgs ==
    {<<GenericCssPath(StyleCss), GenericCssId(0)>>, <<XCssPath, <<"x">>>>, <<XCssPath, <<>>>>}

\* ----------------------------------------------------------------- actions

\* The state once the script has been evaluated: window.CSSLoader is set and
\* the automatic init() has run, in a document at any stage of its loading.
InitWith(files, paths) ==
    /\ pathname \in paths
    /\ commonCSSFiles \in files
    /\ readyState \in {"loading", "interactive", "complete"}
    /\ dclFired \in (IF readyState = "loading" THEN {FALSE}
                     ELSE IF readyState = "complete" THEN {TRUE}
                     ELSE BOOLEAN)
    /\ LET r == InitCall(<<>>, readyState)
       IN  /\ links = r.links
           /\ tasks = <<r.task>>

Init == InitWith({SourceCSSFiles}, Pathnames)

GenInit == InitWith(CandidateLists, GenPathnames)

LiveInit == InitWith({SourceCSSFiles}, LivePathnames)

CanCall == Len(tasks) <= MaxCalls

\* CSSLoader.init()
CallInit ==
    /\ CanCall
    /\ LET r == InitCall(links, readyState)
       IN  /\ links' = r.links
           /\ tasks' = Append(tasks, r.task)
    /\ UNCHANGED <<pathname, commonCSSFiles, readyState, dclFired>>

\* CSSLoader.loadGeneric()
CallLoadGeneric ==
    /\ CanCall
    /\ LET r == GenericFrom(links, NewTask("loadGeneric"), 0)
       IN  /\ links' = r.links
           /\ tasks' = Append(tasks, r.task)
    /\ UNCHANGED <<pathname, commonCSSFiles, readyState, dclFired>>

\* CSSLoader.autoLoad()
CallAutoLoad ==
    /\ CanCall
    /\ LET r == AutoLoadStart(links, NewTask("autoLoad"))
       IN  /\ links' = r.links
           /\ tasks' = Append(tasks, r.task)
    /\ UNCHANGED <<pathname, commonCSSFiles, readyState, dclFired>>

\* CSSLoader.load(cssPath, id)
CallLoad ==
    /\ CanCall
    /\ \E a \in LoadArgs :
         LET cssPath == a[1]
             id == a[2]
             r == LoadCSS(links, cssPath, id)
         IN  /\ links' = r.links
             /\ tasks' = Append(tasks,
                    [NewTask("load") EXCEPT !.pc = "load", !.wait = r.wait,
                         !.attempts = <<Attempt("load", cssPath, id, HasElement(links, id), r.wait)>>])
    /\ UNCHANGED <<pathname, commonCSSFiles, readyState, dclFired>>

\* One continuation from the microtask queue.
Microtask ==
    /\ \E t \in 1..Len(tasks) :
         /\ Runnable(links, tasks[t])
         /\ LET r == Resume(links, tasks[t])
            IN  /\ links' = r.links
                /\ tasks' = [tasks EXCEPT ![t] = r.task]
    /\ UNCHANGED <<pathname, commonCSSFiles, readyState, dclFired>>

\* The platform reports that link k's stylesheet has loaded.
LinkLoaded(k) ==
    /\ k \in 1..Len(links)
    /\ links[k].inDoc /\ links[k].state = "pending"
    /\ NoMicrotask(links, tasks)
    /\ links' = OnLoad(links, k)
    /\ UNCHANGED <<pathname, commonCSSFiles, readyState, dclFired, tasks>>

\* The platform reports that link k's stylesheet could not be loaded.
LinkFailed(k) ==
    /\ k \in 1..Len(links)
    /\ links[k].inDoc /\ links[k].state = "pending"
    /\ NoMicrotask(links, tasks)
    /\ links' = OnError(links, k)
    /\ UNCHANGED <<pathname, commonCSSFiles, readyState, dclFired, tasks>>

LinkLoad == \E k \in 1..Len(links) : LinkLoaded(k)

LinkError == \E k \in 1..Len(links) : LinkFailed(k)

\* The parser is done: readyState leaves "loading".
DocInteractive ==
    /\ readyState = "loading"
    /\ NoMicrotask(links, tasks)
    /\ readyState' = "interactive"
    /\ UNCHANGED <<pathname, commonCSSFiles, dclFired, links, tasks>>

\* DOMContentLoaded is dispatched, once: every registered loadAllCSS runs.
DOMContentLoaded ==
    /\ readyState = "interactive"
    /\ ~dclFired
    /\ NoMicrotask(links, tasks)
    /\ dclFired' = TRUE
    /\ LET r == Dispatch(links, tasks, 1)
       IN  /\ links' = r.links
           /\ tasks' = r.tasks
    /\ UNCHANGED <<pathname, commonCSSFiles, readyState>>

\* The document and its subresources are loaded.
DocComplete ==
    /\ readyState = "interactive"
    /\ dclFired
    /\ NoMicrotask(links, tasks)
    /\ readyState' = "complete"
    /\ UNCHANGED <<pathname, commonCSSFiles, dclFired, links, tasks>>

Next ==
    \/ CallInit
    \/ CallLoadGeneric
    \/ CallAutoLoad
    \/ CallLoad
    \/ Microtask
    \/ LinkLoad
    \/ LinkError
    \/ DocInteractive
    \/ DOMContentLoaded
    \/ DocComplete

\* The script as it is: the candidate list of the source.
Spec == Init /\ [][Next]_vars

\* loadGenericCSS with any candidate list.
GenSpec == GenInit /\ [][Next]_vars

\* The script under the scheduling of the event loop: a queued continuation
\* runs, and while a link element of the document waits for its load or error
\* event, one such event is delivered (so each of the finitely many link
\* elements gets its event).
LiveSpec ==
    /\ LiveInit
    /\ [][Next]_vars
    /\ WF_vars(Microtask)
    /\ WF_vars(LinkLoad \/ LinkError)

\* ------------------------------------------------------------------ claims

TaskIds == 1..Len(tasks)

LinkIds == 1..Len(links)

\* The promise loadCSS returned for an attempt.
AttemptState(a) == PromiseState(links, a.link)

\* The loadCSS calls a call made from loadGenericCSS / from autoLoadPageCSS.
GenericAttempts(task) == SelectSeq(task.attempts, LAMBDA a : a.by = "generic")

PageAttempts(task) == SelectSeq(task.attempts, LAMBDA a : a.by = "page")

\* The link elements a call has put into the head and that are still there.
Inserted(task) ==
    {j \in 1..Len(task.attempts) :
        task.attempts[j].link \in LinkIds /\ links[task.attempts[j].link].inDoc}

\* C1: whatever loadCSS calls were made (directly, by loadGenericCSS, by
\* autoLoadPageCSS, by any init run, whether the earlier load of the id is
\* pending, loaded or failed), no two elements of the document carry the same
\* non-empty id; and a call that found an element with its id appended none.
C1_AtMostOneElementPerId ==
    /\ \A j, k \in LinkIds :
         (j # k /\ links[j].inDoc /\ links[k].inDoc /\ links[j].id # <<>>)
             => links[j].id # links[k].id
    /\ \A t \in TaskIds : \A j \in 1..Len(tasks[t].attempts) :
         LET a == tasks[t].attempts[j]
         IN  (a.id # <<>> /\ a.existed) => a.link \notin LinkIds

\* C1's case: an id was asked for again, and nothing was appended, while its
\* element was in the document; the earlier load of the id has failed.
C1_Witness ==
    \E t \in TaskIds : \E j \in 1..Len(tasks[t].attempts) :
        LET a == tasks[t].attempts[j]
        IN  /\ a.id # <<>> /\ a.existed /\ a.link = 0
            /\ \E k \in LinkIds : links[k].id = a.id /\ links[k].state = "failed"

\* The element a loadCSS call refers to: the one it created, or else the one
\* with its id.
RefersTo(a) ==
    IF a.link \in LinkIds THEN a.link
    ELSE CHOOSE k \in LinkIds : links[k].inDoc /\ links[k].id = a.id

\* C2: a loadCSS promise is resolved only when the platform has reported the
\* load of the element the call refers to, and it is rejected with the error
\* naming the call's path when the platform has reported a load error for it.
C2_ResolvedMeansLoaded ==
    \A t \in TaskIds : \A j \in 1..Len(tasks[t].attempts) :
        LET a == tasks[t].attempts[j]
        IN  /\ AttemptState(a) = "resolved" => links[RefersTo(a)].state = "loaded"
            /\ links[RefersTo(a)].state = "failed" =>
                   /\ AttemptState(a) = "rejected"
                   /\ links[RefersTo(a)].error = LoadError(a.path)

\* A CSSLoader.loadGeneric() call with the list ['style.css'], made when the
\* document had no element generic-css-0, whose request has been answered
\* and whose continuation has run.
GenericCallSettled(t) ==
    /\ tasks[t].kind = "loadGeneric"
    /\ commonCSSFiles = <<StyleCss>>
    /\ Len(tasks[t].attempts) = 1
    /\ ~tasks[t].attempts[1].existed
    /\ tasks[t].pc \notin {"generic"}

\* C3 as stated: ./style.css loadable gives a resolved call and one link
\* element inserted, ./style.css not loadable gives a resolved call and no
\* link element inserted.
C3_FailureInsertsNothing ==
    \A t \in TaskIds :
        GenericCallSettled(t) =>
            /\ tasks[t].pc = "done"
            /\ AttemptState(tasks[t].attempts[1]) = "resolved"
                   => Cardinality(Inserted(tasks[t])) = 1
            /\ AttemptState(tasks[t].attempts[1]) = "rejected"
                   => Cardinality(Inserted(tasks[t])) = 0

\* C3 amended: in both cases the call resolves and exactly one link element
\* has been inserted; after a load error the failed element is still there.
C3_OneLinkEitherWay ==
    \A t \in TaskIds :
        GenericCallSettled(t) =>
            /\ tasks[t].pc = "done"
            /\ AttemptState(tasks[t].attempts[1]) \in {"resolved", "rejected"}
            /\ Cardinality(Inserted(tasks[t])) = 1
            /\ \E k \in LinkIds :
                 /\ links[k].inDoc
                 /\ links[k].id = GenericCssId(0)
                 /\ links[k].href = GenericCssPath(StyleCss)

\* C3's case: such a call after the load error of ./style.css.
C3_Witness ==
    \E t \in TaskIds :
        /\ GenericCallSettled(t)
        /\ AttemptState(tasks[t].attempts[1]) = "rejected"

\* C4: the promises of loadGenericCSS and autoLoadPageCSS never reject, and a
\* rejection of loadCSS stops at the helper that awaited it: an init run that
\* is over has gone through autoLoadPageCSS whatever loadGenericCSS met.
C4_OnlyLoadRejects ==
    \A t \in TaskIds :
        /\ tasks[t].kind \in {"loadGeneric", "autoLoad", "init"} => tasks[t].pc # "rejected"
        /\ (tasks[t].kind = "init" /\ tasks[t].pc = "done" /\ PageName(pathname) # <<>>)
               => Len(PageAttempts(tasks[t])) = 1

\* C4's case: a helper and an init run that are over after a rejected load.
C4_Witness ==
    /\ \E t \in TaskIds :
         /\ tasks[t].kind \in {"loadGeneric", "autoLoad"}
         /\ tasks[t].pc = "done"
         /\ \E j \in 1..Len(tasks[t].attempts) : AttemptState(tasks[t].attempts[j]) = "rejected"
    /\ \E t \in TaskIds :
         /\ tasks[t].kind = "init"
         /\ tasks[t].pc = "done"
         /\ Len(GenericAttempts(tasks[t])) > 0
         /\ AttemptState(GenericAttempts(tasks[t])[1]) = "rejected"

\* C5: an init call made with readyState other than "loading" has started
\* loadAllCSS within the call; one made with "loading" has made no request
\* and started nothing before DOMContentLoaded, and has started loadAllCSS
\* exactly once from its dispatch on.
C5_InitTiming ==
    \A t \in TaskIds :
        tasks[t].kind = "init" =>
            /\ tasks[t].atCall # "loading" => tasks[t].starts = 1
            /\ (tasks[t].atCall = "loading" /\ ~dclFired) =>
                   /\ tasks[t].starts = 0
                   /\ tasks[t].attempts = <<>>
                   /\ tasks[t].pc = "deferred"
            /\ (tasks[t].atCall = "loading" /\ dclFired) => tasks[t].starts = 1

\* C5's case: after DOMContentLoaded, one run that had been deferred and has
\* made its request, and one that was started at once.
C5_Witness ==
    /\ dclFired
    /\ \E t \in TaskIds :
         /\ tasks[t].kind = "init" /\ tasks[t].atCall = "loading"
         /\ tasks[t].starts = 1 /\ tasks[t].attempts # <<>>
    /\ \E t \in TaskIds :
         /\ tasks[t].kind = "init" /\ tasks[t].atCall = "interactive"
         /\ tasks[t].starts = 1

\* An init run whose loadAllCSS has been started / has reached its end.
InitStarted(t) == t \in TaskIds /\ tasks[t].kind = "init" /\ tasks[t].starts > 0

InitFinished(t) == t \in TaskIds /\ tasks[t].pc = "done"

\* C6: no init run ends in an exception or a rejected promise, and when every
\* link element gets its load or error event, every started load sequence
\* reaches its end: from some point on, whatever was started is finished
\* (a started run stays started, so each one is finished eventually).
C6_InitRunsFinish ==
    /\ [](\A t \in TaskIds : tasks[t].kind = "init" => tasks[t].pc # "rejected")
    /\ <>[](\A t \in TaskIds : InitStarted(t) => InitFinished(t))

\* C6's case: a load sequence that has reached its end after a rejected load,
\* beside another init run.
C6_Witness ==
    /\ \E t \in TaskIds :
         /\ tasks[t].kind = "init" /\ tasks[t].pc = "done"
         /\ \E j \in 1..Len(tasks[t].attempts) : AttemptState(tasks[t].attempts[j]) = "rejected"
    /\ \E t, u \in TaskIds : t # u /\ tasks[t].kind = "init" /\ tasks[u].kind = "init"

\* The page name as C7 states it: the last segment without a .html suffix.
SuffixName == ReplaceSuffix(LastSegment(pathname), DotHtml, <<>>)

\* Calls that are in or past autoLoadPageCSS.
PastAutoLoadStart(t) ==
    \/ tasks[t].kind = "autoLoad"
    \/ tasks[t].kind = "init" /\ tasks[t].pc \in {"page", "pageRet", "done"}

\* C7: autoLoadPageCSS makes exactly one loadCSS call, for ./N.css with id
\* page-css-N, where N is the last segment of the pathname without its .html
\* suffix, and makes none and resolves when N is empty.
C7_PageNameIsSuffixStripped ==
    \A t \in TaskIds :
        PastAutoLoadStart(t) =>
            IF SuffixName # <<>>
            THEN /\ Len(PageAttempts(tasks[t])) = 1
                 /\ PageAttempts(tasks[t])[1].path = PageCssPath(SuffixName)
                 /\ PageAttempts(tasks[t])[1].id = PageCssId(SuffixName)
            ELSE /\ PageAttempts(tasks[t]) = <<>>
                 /\ tasks[t].kind = "autoLoad" => tasks[t].pc = "done"

\* An init run has a request of the given phase out: the link element it
\* appended has had neither its load nor its error event.
RequestPending(t, phase) ==
    /\ tasks[t].kind = "init"
    /\ \E j \in 1..Len(tasks[t].attempts) :
         /\ tasks[t].attempts[j].by = phase
         /\ tasks[t].attempts[j].link \in LinkIds
         /\ links[tasks[t].attempts[j].link].state = "pending"

\* C8: over all init runs, no page-specific request is out while a generic
\* request is out.
C8_PhasesNeverOverlap ==
    \A t, u \in TaskIds : ~(RequestPending(t, "generic") /\ RequestPending(u, "page"))

\* C9: in one loadGenericCSS run, candidate i is asked for as ./<name_i> under
\* generic-css-i, in list order; every candidate but the last one asked for
\* has been rejected (so one request at most is out, the next comes only after
\* a rejection, none comes after a resolved one); the run never rejects, and
\* it returns exactly after a resolved load or after the last candidate's
\* rejection (at once with an empty list).
C9_CandidatesInOrder ==
    \A t \in TaskIds :
        tasks[t].kind \in {"loadGeneric", "init"} =>
            LET G == GenericAttempts(tasks[t])
                n == Len(G)
            IN  /\ n <= Len(commonCSSFiles)
                /\ \A j \in 1..n :
                     /\ G[j].path = DotSlash \o commonCSSFiles[j]
                     /\ G[j].id = GenericPrefix \o ToDecimal(j - 1)
                /\ \A j \in 1..(n - 1) : AttemptState(G[j]) = "rejected"
                /\ tasks[t].pc # "rejected"
                /\ tasks[t].pc = "generic" => n = tasks[t].i + 1
                /\ tasks[t].pc \in {"genericRet", "page", "pageRet", "done"} =>
                     \/ n > 0 /\ AttemptState(G[n]) = "resolved"
                     \/ n = Len(commonCSSFiles) /\ (n > 0 => AttemptState(G[n]) = "rejected")

\* C9's case: a run over two candidates, the first rejected, the second
\* loaded, that has returned.
C9_Witness ==
    \E t \in TaskIds :
        /\ tasks[t].kind = "loadGeneric"
        /\ tasks[t].pc = "done"
        /\ Len(tasks[t].attempts) = 2
        /\ ~tasks[t].attempts[1].existed
        /\ AttemptState(tasks[t].attempts[1]) = "rejected"
        /\ tasks[t].attempts[2].link \in LinkIds
        /\ AttemptState(tasks[t].attempts[2]) = "resolved"

\* A step is a direct load call whose id an element of the document has.
LoadOfPresentId ==
    /\ Len(tasks') = Len(tasks) + 1
    /\ tasks'[Len(tasks')].kind = "load"
    /\ tasks'[Len(tasks')].attempts[1].id # <<>>
    /\ HasElement(links, tasks'[Len(tasks')].attempts[1].id)

====
